---- MODULE Spec2Model ----
(***************************************************************************)
(* A model of the Myntra review scraper: the two ScrapeReviews variants    *)
(* (src/src/scrapper/scraper.py, used by app.py, and                       *)
(* src/src/scraper/scraper.py) and the button handler of app.py that       *)
(* drives a run.                                                           *)
(*                                                                         *)
(* Text is modelled as a sequence of tokens: a URL such as                 *)
(* "https://www.myntra.com/p/1" is <<"https:", "//", "www.myntra.com",     *)
(* "/p/", "1">>.  Python's `x in href` and `href.startswith(x)` become     *)
(* tests on the tokens, string concatenation becomes \o.                   *)
(***************************************************************************)
EXTENDS Integers, Sequences, FiniteSets, TLC

\* ------------------------------------------------------------------ bounds
\* Largest productLimit of a request under SpecPages (app.py allows 1..10).
MaxN == 3
\* Largest productLimit of a request inside a whole run.
MaxRunN == 2
\* Largest number of anchor elements on a search page under SpecPages.
MaxLinks == 5
\* Largest number of anchor elements on a search page inside a whole run.
MaxRunLinks == 2
\* Largest number of review blocks on a review page inside a whole run.
MaxBlocks == 2
\* Largest number of review blocks on a review page under SpecPages.
MaxWideBlocks == 3

\* ------------------------------------------------------------------ text
\* The empty string; also stands for None where the code only tests truthiness.
NoHref == <<>>

\* The needles of the code's substring tests that occur inside one token.
Occurs(tok) ==
    CASE tok = "www.myntra.com" -> {"myntra.com"}
      [] tok = "/p/"            -> {"/p/"}
      [] tok = "/product/"      -> {"/product", "/product/"}
      [] tok = "/products/"     -> {"/product", "/products/"}
      [] tok = "/buy/"          -> {"/buy", "/buy/"}
      [] tok = "/reviews/"      -> {"reviews"}
      [] OTHER                  -> {}

\* Python: needle in href
Has(href, needle) == \E i \in DOMAIN href : needle \in Occurs(href[i])

\* Python: href.startswith(prefix), for a prefix that is one token
StartsWith(href, prefix) == Len(href) > 0 /\ href[1] = prefix

\* Python: href.startswith("http")
StartsWithHttp(href) == Len(href) > 0 /\ href[1] \in {"http:", "https:"}

MyntraBase == <<"https:", "//", "www.myntra.com">>

\* urllib.parse.urljoin("https://www.myntra.com/", href)
UrlJoin(href) ==
    IF StartsWithHttp(href) THEN href
    ELSE IF StartsWith(href, "//") THEN <<"https:">> \o href
    ELSE MyntraBase \o href

U1 == MyntraBase \o <<"/p/", "1">>
U2 == MyntraBase \o <<"/p/", "2">>
\* protocol-relative spelling of U2
P2 == <<"//", "www.myntra.com", "/p/", "2">>
\* site-relative spelling of U1
R1 == <<"/p/", "1">>
\* on the site, not a product page
M0 == MyntraBase \o <<"/about/">>
\* a product-shaped path on another site
X9 == <<"https:", "//", "other.com", "/p/", "9">>
\* neither
O0 == <<"https:", "//", "other.com", "/about/">>

\* ------------------------------------------------------------ search page
\* An anchor element of the search page: the structural class it sits in, its
\* href, and whether reading its attribute raises (a stale element).
Element(cls, href, stale) == [cls |-> cls, href |-> href, stale |-> stale]

\* The anchors a search page under SpecPages is built from.
Elements ==
    { Element("li.product-base", U1, FALSE),
      Element("li.product-base", U2, FALSE),
      Element("ul.results-base li", R1, FALSE),
      Element("plain", P2, FALSE),
      Element("plain", O0, FALSE),
      Element("a.product-base", NoHref, FALSE) }

\* The anchors a search page of a whole run is built from; the third is stale.
RunElements ==
    { Element("li.product-base", U1, FALSE),
      Element("plain", P2, FALSE),
      Element("li.product-base", U2, TRUE),
      Element("plain", O0, FALSE) }

\* Does the CSS selector match the element?
Matches(sel, el) ==
    CASE sel = "li.product-base a[href]"    -> el.cls = "li.product-base" /\ el.href # NoHref
      [] sel = "ul.results-base li a[href]" -> el.cls = "ul.results-base li" /\ el.href # NoHref
      [] sel = "a.product-base"             -> el.cls = "a.product-base"
      [] sel = "a[href*='/p/']"             -> Has(el.href, "/p/")
      [] sel = "a[href^='/p/']"             -> StartsWith(el.href, "/p/")
      [] sel = "a[href*='/product/']"       -> Has(el.href, "/product/")
      [] sel = "a[href]"                    -> el.href # NoHref
      [] OTHER                              -> FALSE

\* driver.find_elements(By.CSS_SELECTOR, sel) on a page that does not raise
FindElements(anchors, sel) == SelectSeq(anchors, LAMBDA el : Matches(sel, el))

\* The strategy list of scrape_product_urls, most specific first.
selectors ==
    << "li.product-base a[href]",
       "ul.results-base li a[href]",
       "a.product-base",
       "a[href*='/p/']",
       "a[href*='/product/']" >>

FallbackSelector == "a[href]"

\* A search page: its anchors in document order and the selectors whose
\* find_elements call raises.
SearchPage(anchors, broken) == [kind |-> "search", anchors |-> anchors, broken |-> broken]

\* ResolveFrom with the `break` lost and the results accumulated: the match
\* sets of all strategies are merged.
RECURSIVE ResolveFromMerging(_, _, _)
ResolveFromMerging(pg, sels, i) ==
    IF i > Len(sels) THEN [anchors |-> <<>>, tried |-> Len(sels), won |-> 0]
    ELSE LET rest == ResolveFromMerging(pg, sels, i + 1)
             elements == IF sels[i] \in pg.broken THEN <<>>
                         ELSE FindElements(pg.anchors, sels[i])
         IN  [anchors |-> elements \o rest.anchors, tried |-> Len(sels),
              won |-> IF elements # <<>> THEN i ELSE rest.won]

\* The `for sel in selectors` loop: the first strategy that yields an element
\* wins; a strategy that raises is skipped.  tried counts the strategies
\* evaluated, won is the index of the winning one (0: none).
RECURSIVE ResolveFrom(_, _, _)
ResolveFrom(pg, sels, i) ==
    IF i > Len(sels) THEN [anchors |-> <<>>, tried |-> Len(sels), won |-> 0]
    ELSE IF sels[i] \in pg.broken THEN ResolveFrom(pg, sels, i + 1)
    ELSE LET elements == FindElements(pg.anchors, sels[i])
         IN  IF elements # <<>>
             THEN [anchors |-> elements, tried |-> i, won |-> i]
             ELSE ResolveFrom(pg, sels, i + 1)

\* Product-link resolution with its `a[href]` fallback; the fallback call is
\* not guarded, so it raises out of scrape_product_urls when it fails.
ResolveProductLinks(pg) ==
    LET r == ResolveFrom(pg, selectors, 1)
    IN  IF r.anchors # <<>> THEN r @@ [raised |-> FALSE]
        ELSE IF FallbackSelector \in pg.broken
             THEN [anchors |-> <<>>, tried |-> Len(selectors) + 1, won |-> 0, raised |-> TRUE]
             ELSE LET all == FindElements(pg.anchors, FallbackSelector)
                  IN  [anchors |-> all, tried |-> Len(selectors) + 1,
                       won |-> IF all # <<>> THEN Len(selectors) + 1 ELSE 0,
                       raised |-> FALSE]

\* The acceptance heuristic of the scrapper variant.
Accepted(href) ==
    \/ \E x \in {"/p/", "/product", "/buy/", "/products/"} : Has(href, x)
    \/ Has(href, "myntra.com")

\* "normalize to https if missing"
Normalize(href) == IF StartsWith(href, "//") THEN <<"https:">> \o href ELSE href

\* The `for el in anchors` loop of the scrapper variant: it stops collecting
\* as soon as product_links holds no_of_products entries.
RECURSIVE CollectLinks(_, _, _, _)
CollectLinks(anchors, i, product_links, n) ==
    IF i > Len(anchors) THEN product_links
    ELSE LET el == anchors[i]
         IN  IF el.stale \/ el.href = NoHref
             THEN CollectLinks(anchors, i + 1, product_links, n)
             ELSE LET links == IF Accepted(el.href)
                               THEN Append(product_links, Normalize(el.href))
                               ELSE product_links
                  IN  IF Len(links) >= n THEN links
                      ELSE CollectLinks(anchors, i + 1, links, n)

Range(s) == { s[i] : i \in DOMAIN s }

\* Dedupe with the `if u not in seen` test lost: every link is kept.
DedupeKeepsAll(links, i, unique) == links

\* "dedupe preserving order"
RECURSIVE Dedupe(_, _, _)
Dedupe(links, i, unique) ==
    IF i > Len(links) THEN unique
    ELSE IF links[i] \in Range(unique) THEN Dedupe(links, i + 1, unique)
    ELSE Dedupe(links, i + 1, Append(unique, links[i]))

\* Python: s[:n]
Take(s, n) == SubSeq(s, 1, IF n < Len(s) THEN n ELSE Len(s))

\* scrape_product_urls of src/scrapper/scraper.py once the page is loaded.
ScrapperProductUrls(pg, n) ==
    LET r == ResolveProductLinks(pg)
    IN  IF r.raised THEN [raised |-> TRUE, urls |-> <<>>]
        ELSE [raised |-> FALSE,
              urls |-> Take(Dedupe(CollectLinks(r.anchors, 1, <<>>, n), 1, <<>>), n)]

\* The combined selector of the scraper variant (BeautifulSoup, document order).
ScraperSelected(el) ==
    \/ Matches("li.product-base a[href]", el)
    \/ Matches("ul.results-base li a[href]", el)
    \/ Matches("a[href^='/p/']", el)
    \/ Matches("a[href*='/product/']", el)

\* The `for a in anchors` loop of the scraper variant.
RECURSIVE ScraperLinks(_, _, _)
ScraperLinks(anchors, i, product_links) ==
    IF i > Len(anchors) THEN product_links
    ELSE LET href == anchors[i].href
             full_url == UrlJoin(href)
         IN  IF href = NoHref \/ ~Has(full_url, "myntra.com")
             THEN ScraperLinks(anchors, i + 1, product_links)
             ELSE IF Has(full_url, "/p/") \/ Has(full_url, "/product/") \/ Has(full_url, "/buy")
                  THEN ScraperLinks(anchors, i + 1, Append(product_links, full_url))
                  ELSE ScraperLinks(anchors, i + 1, product_links)

\* The dedupe loop of the scraper variant, which stops at no_of_products.
RECURSIVE ScraperUnique(_, _, _, _)
ScraperUnique(links, i, unique, n) ==
    IF i > Len(links) THEN unique
    ELSE LET u == IF links[i] \in Range(unique) THEN unique ELSE Append(unique, links[i])
         IN  IF Len(u) >= n THEN u ELSE ScraperUnique(links, i + 1, u, n)

\* scrape_product_urls of src/scraper/scraper.py once the page is loaded.
ScraperProductUrls(pg, n) ==
    [raised |-> FALSE,
     urls |-> ScraperUnique(ScraperLinks(SelectSeq(pg.anchors, ScraperSelected), 1, <<>>), 1, <<>>, n)]

ProductUrls(v, pg, n) ==
    IF v = "scrapper" THEN ScrapperProductUrls(pg, n) ELSE ScraperProductUrls(pg, n)

\* ----------------------------------------------------------- product page
\* Python's None where a URL is expected; "" is <<>>.
None == <<"None">>

\* Python truthiness of an optional string
Truthy(u) == u # None /\ u # <<>>

\* What the page answers to one strategy of _try_click_review_anchor:
\*   "absent" find_element raises, "click" the native click works,
\*   "js" the native click raises and the script click works,
\*   "dead" both clicks raise.
ControlRows ==
    { <<"absent", "absent", "absent", "absent">>,
      <<"click", "absent", "absent", "absent">>,
      <<"absent", "js", "absent", "absent">>,
      <<"dead", "dead", "absent", "click">>,
      <<"dead", "absent", "absent", "absent">> }

\* A browser operation of the click-through step on the i-th strategy.
ClickOp(op, i) == [op |-> op, sel |-> i]

\* No click-through step was made.
NoClick == [clicked |-> FALSE, ops |-> <<>>]

\* The click-through step without the script fallback: a native click that
\* raises ends the strategy.
RECURSIVE TryClickStepsNoFallback(_, _, _)
TryClickStepsNoFallback(controls, i, ops) ==
    IF i > Len(controls) THEN [clicked |-> FALSE, ops |-> ops]
    ELSE LET found == Append(ops, ClickOp("find_element", i))
             native == Append(found, ClickOp("click", i))
         IN  CASE controls[i] = "absent" -> TryClickStepsNoFallback(controls, i + 1, found)
               [] controls[i] = "click"  -> [clicked |-> TRUE, ops |-> native]
               [] OTHER                  -> TryClickStepsNoFallback(controls, i + 1, native)

\* The `for mode, sel in try_selectors` loop with the browser operations it
\* performs: find_element, el.click(), and the script click when el.click()
\* raised; it returns at the first strategy one of whose clicks works.
RECURSIVE TryClickSteps(_, _, _)
TryClickSteps(controls, i, ops) ==
    IF i > Len(controls) THEN [clicked |-> FALSE, ops |-> ops]
    ELSE LET found == Append(ops, ClickOp("find_element", i))
             native == Append(found, ClickOp("click", i))
             script == Append(native, ClickOp("execute_script", i))
         IN  CASE controls[i] = "absent" -> TryClickSteps(controls, i + 1, found)
               [] controls[i] = "click"  -> [clicked |-> TRUE, ops |-> native]
               [] controls[i] = "js"     -> [clicked |-> TRUE, ops |-> script]
               [] OTHER                  -> TryClickSteps(controls, i + 1, script)

\* _try_click_review_anchor: True at the first control one of whose two click
\* methods works.
TryClick(controls, i) == TryClickSteps(controls, i, <<>>).clicked

\* The hrefs a static reviews anchor may carry; None: an anchor without href.
AnchorHrefs == { <<"/reviews/", "1">>, MyntraBase \o <<"/reviews/", "1">>, <<>>, None }

\* A product page: whether loading or reading it raises, its click controls,
\* whether review-block markers are in the markup after the click attempt,
\* whether a click navigated, and the reviews anchor of the static markup
\* ("absent": none).
ProductPage(fails, controls, markers, navigated, anchor, href) ==
    [kind |-> "product", fails |-> fails, controls |-> controls, markers |-> markers,
     navigated |-> navigated, anchor |-> anchor, href |-> href]

ProductPages ==
    { ProductPage(TRUE, <<"absent", "absent", "absent", "absent">>, FALSE, FALSE, FALSE, None) }
    \cup { pp \in { ProductPage(FALSE, c, m, nav, a, h) :
                      c \in ControlRows, m \in BOOLEAN, nav \in BOOLEAN,
                      a \in BOOLEAN, h \in AnchorHrefs } :
             /\ pp.navigated => TryClick(pp.controls, 1)
             /\ ~pp.anchor => pp.href = None }

\* Hrefs of a reviews anchor in further spellings: relative without a leading
\* slash ("reviews/1"), protocol-relative, and absolute on another site.
RelReviews == << "reviews/", "1" >>
ProtoReviews == << "//", "www.myntra.com", "/reviews/", "1" >>
OffSiteReviews == << "https:", "//", "other.com", "/reviews/", "1" >>

WideAnchorHrefs == AnchorHrefs \cup { RelReviews, ProtoReviews, OffSiteReviews }

\* The product pages with every spelling of the anchor href.
WideProductPages ==
    { ProductPage(TRUE, <<"absent", "absent", "absent", "absent">>, FALSE, FALSE, FALSE, None) }
    \cup { pp \in { ProductPage(FALSE, c, m, nav, a, h) :
                      c \in ControlRows, m \in BOOLEAN, nav \in BOOLEAN,
                      a \in BOOLEAN, h \in WideAnchorHrefs } :
             /\ pp.navigated => TryClick(pp.controls, 1)
             /\ ~pp.anchor => pp.href = None }

\* driver.current_url after the click attempt
CurrentUrl(product_url, pp) ==
    IF pp.navigated THEN product_url \o <<"/reviews/">> ELSE product_url

\* extract_reviews that falls back to the product page when it finds nothing
\* (as the scraper variant does) instead of returning None.
ScrapperExtractReviewsFallsBack(product_url, pp) ==
    IF pp.fails THEN [raised |-> TRUE, url |-> None]
    ELSE IF pp.markers \/ TryClick(pp.controls, 1)
         THEN [raised |-> FALSE, url |-> CurrentUrl(product_url, pp)]
    ELSE IF pp.anchor /\ Truthy(pp.href)
         THEN [raised |-> FALSE,
               url |-> IF StartsWithHttp(pp.href) THEN pp.href ELSE MyntraBase \o pp.href]
    ELSE [raised |-> FALSE, url |-> product_url]

\* extract_reviews that looks for the static anchor before it asks whether a
\* click occurred.
ScrapperExtractReviewsAnchorFirst(product_url, pp) ==
    IF pp.fails THEN [raised |-> TRUE, url |-> None]
    ELSE LET clicked == TryClick(pp.controls, 1)
             current == CurrentUrl(product_url, pp)
         IN  IF pp.markers THEN [raised |-> FALSE, url |-> current]
             ELSE IF pp.anchor
                  THEN [raised |-> FALSE,
                        url |-> IF Truthy(pp.href) /\ ~StartsWithHttp(pp.href)
                                THEN MyntraBase \o pp.href ELSE pp.href]
             ELSE IF clicked THEN [raised |-> FALSE, url |-> current]
             ELSE [raised |-> FALSE, url |-> None]

\* extract_reviews of src/scrapper/scraper.py
ScrapperExtractReviews(product_url, pp) ==
    IF pp.fails THEN [raised |-> TRUE, url |-> None]
    ELSE LET clicked == TryClick(pp.controls, 1)
             current == CurrentUrl(product_url, pp)
         IN  IF pp.markers THEN [raised |-> FALSE, url |-> current]
             ELSE IF clicked THEN [raised |-> FALSE, url |-> current]
             ELSE IF pp.anchor
                  THEN [raised |-> FALSE,
                        url |-> IF Truthy(pp.href) /\ ~StartsWithHttp(pp.href)
                                THEN MyntraBase \o pp.href ELSE pp.href]
                  ELSE [raised |-> FALSE, url |-> None]

\* extract_reviews of src/scraper/scraper.py: no click, the product page itself
\* when no anchor or no href is found.
ScraperExtractReviews(product_url, pp) ==
    IF pp.fails THEN [raised |-> TRUE, url |-> None]
    ELSE IF ~pp.anchor THEN [raised |-> FALSE, url |-> product_url]
    ELSE IF ~Truthy(pp.href) THEN [raised |-> FALSE, url |-> product_url]
    ELSE [raised |-> FALSE,
          url |-> IF StartsWithHttp(pp.href) THEN pp.href ELSE UrlJoin(pp.href)]

ExtractReviews(v, product_url, pp) ==
    IF v = "scrapper" THEN ScrapperExtractReviews(product_url, pp)
    ELSE ScraperExtractReviews(product_url, pp)

\* ------------------------------------------------------------ review page
\* Python's None where a field text is expected; "" is the empty text.
NoText == "<None>"

\* A review block: the container class it carries, the texts its field
\* selectors find (NoText: no element), and whether parsing it raises.
Block(cls, rating, comment, name, date, bad) ==
    [cls |-> cls, rating |-> rating, comment |-> comment, name |-> name,
     date |-> date, bad |-> bad]

\* The blocks a review page of a whole run is built from: a full review, one
\* with an empty rating text, one with neither rating nor comment, and one
\* whose parsing raises.
RunBlocks ==
    { Block("li.user-review-item", "5", "good", "Asha", "2024", FALSE),
      Block("li.user-review-item", "", "ok", NoText, NoText, FALSE),
      Block("li.user-review-item", NoText, NoText, NoText, NoText, FALSE),
      Block("div.user-review", "5", "good", "Asha", "2024", TRUE) }

\* The blocks a review page under SpecPages is built from.
Blocks ==
    RunBlocks \cup
    { Block("div.user-review", "5", "good", "Asha", "2024", FALSE),
      Block("div.user-review", "", NoText, "Ravi", "2024", FALSE),
      Block("div.reviews", "3", "fine", NoText, NoText, FALSE) }

\* The strategy list of extract_products (scrapper variant).
review_selectors ==
    << "div.detailed-reviews-userReviewsContainer",
       "li.user-review-item",
       "div.user-review",
       "div.review",
       ".ratingReviews" >>

\* soup.select(sel) for a container selector
SoupSelect(blocks, sel) == SelectSeq(blocks, LAMBDA b : b.cls = sel)

\* The `for sel in review_selectors` loop: the first selector that finds a
\* block wins.
RECURSIVE ResolveBlocks(_, _)
ResolveBlocks(blocks, i) ==
    IF i > Len(review_selectors) THEN [blocks |-> <<>>, tried |-> Len(review_selectors), won |-> 0]
    ELSE LET found == SoupSelect(blocks, review_selectors[i])
         IN  IF found # <<>> THEN [blocks |-> found, tried |-> i, won |-> i]
             ELSE ResolveBlocks(blocks, i + 1)

\* A review page: whether loading it raises, its <title> text (NoText: no
\* title tag), and its blocks in document order.
ReviewPage(fails, title, blocks) ==
    [kind |-> "review", fails |-> fails, title |-> title, blocks |-> blocks]

\* Python: not text
Falsy(text) == text = NoText \/ text = ""

ScrapperRecord(product_title, b) ==
    [ProductName |-> product_title, Over_All_Rating |-> NoText, Price |-> NoText,
     Date |-> b.date, Rating |-> b.rating, Name |-> b.name, Comment |-> b.comment]

\* ScrapperReviews with the `if not comment and not rating: continue` lost.
RECURSIVE ScrapperReviewsKeepsAll(_, _, _, _)
ScrapperReviewsKeepsAll(blocks, i, reviews, product_title) ==
    IF i > Len(blocks) THEN reviews
    ELSE IF blocks[i].bad THEN ScrapperReviewsKeepsAll(blocks, i + 1, reviews, product_title)
    ELSE ScrapperReviewsKeepsAll(blocks, i + 1,
                                 Append(reviews, ScrapperRecord(product_title, blocks[i])),
                                 product_title)

\* ScrapperReviews without the try/except around one block: the first block
\* whose parsing raises ends the loop.
RECURSIVE ScrapperReviewsStopsAtBadBlock(_, _, _, _)
ScrapperReviewsStopsAtBadBlock(blocks, i, reviews, product_title) ==
    IF i > Len(blocks) THEN reviews
    ELSE LET b == blocks[i]
         IN  IF b.bad THEN reviews
             ELSE IF Falsy(b.comment) /\ Falsy(b.rating)
                  THEN ScrapperReviewsStopsAtBadBlock(blocks, i + 1, reviews, product_title)
                  ELSE ScrapperReviewsStopsAtBadBlock(
                           blocks, i + 1, Append(reviews, ScrapperRecord(product_title, b)),
                           product_title)

\* The `for b in blocks` loop of the scrapper variant.
RECURSIVE ScrapperReviews(_, _, _, _)
ScrapperReviews(blocks, i, reviews, product_title) ==
    IF i > Len(blocks) THEN reviews
    ELSE LET b == blocks[i]
         IN  IF b.bad THEN ScrapperReviews(blocks, i + 1, reviews, product_title)
             ELSE IF Falsy(b.comment) /\ Falsy(b.rating)
                  THEN ScrapperReviews(blocks, i + 1, reviews, product_title)
                  ELSE ScrapperReviews(blocks, i + 1,
                                       Append(reviews, ScrapperRecord(product_title, b)),
                                       product_title)

ProductTitle(rp) == IF rp.title # NoText THEN rp.title ELSE "Unknown Product"

\* extract_products that treats a page without review blocks as an error.
ScrapperExtractProductsRaisesOnEmpty(rp) ==
    IF rp.fails THEN [raised |-> TRUE, df |-> <<>>]
    ELSE LET r == ResolveBlocks(rp.blocks, 1)
         IN  IF r.blocks = <<>> THEN [raised |-> TRUE, df |-> <<>>]
             ELSE [raised |-> FALSE,
                   df |-> ScrapperReviews(r.blocks, 1, <<>>, ProductTitle(rp))]

\* extract_products of src/scrapper/scraper.py
ScrapperExtractProducts(rp) ==
    IF rp.fails THEN [raised |-> TRUE, df |-> <<>>]
    ELSE LET r == ResolveBlocks(rp.blocks, 1)
         IN  IF r.blocks = <<>> THEN [raised |-> FALSE, df |-> <<>>]
             ELSE [raised |-> FALSE,
                   df |-> ScrapperReviews(r.blocks, 1, <<>>, ProductTitle(rp))]

\* The combined container selector of the scraper variant.
ScraperBlockClasses ==
    { "div.detailed-reviews-userReviewsContainer", "div.user-review", "li.user-review-item",
      "div.index-reviewContainer", "div.user-review-card", "div.reviews" }

ScraperRecord(product_title, b) ==
    [ProductName |-> product_title, Price |-> NoText,
     Date |-> b.date, Rating |-> b.rating, Name |-> b.name, Comment |-> b.comment]

\* The `for block in review_blocks` loop of the scraper variant: every block
\* that parses becomes a record.
RECURSIVE ScraperReviews(_, _, _, _)
ScraperReviews(blocks, i, reviews, product_title) ==
    IF i > Len(blocks) THEN reviews
    ELSE LET b == blocks[i]
         IN  IF b.bad THEN ScraperReviews(blocks, i + 1, reviews, product_title)
             ELSE ScraperReviews(blocks, i + 1,
                                 Append(reviews, ScraperRecord(product_title, b)),
                                 product_title)

\* extract_products of src/scraper/scraper.py
ScraperExtractProducts(rp) ==
    IF rp.fails THEN [raised |-> TRUE, df |-> <<>>]
    ELSE [raised |-> FALSE,
          df |-> ScraperReviews(SelectSeq(rp.blocks, LAMBDA b : b.cls \in ScraperBlockClasses),
                                1, <<>>, ProductTitle(rp))]

ExtractProducts(v, rp) ==
    IF v = "scrapper" THEN ScrapperExtractProducts(rp) ELSE ScraperExtractProducts(rp)

\* DataFrame.drop_duplicates(keep="last")
RECURSIVE DropRepeats(_)
DropRepeats(rows) ==
    IF rows = <<>> THEN rows
    ELSE IF \E k \in 2..Len(rows) : rows[k] = rows[1] THEN DropRepeats(Tail(rows))
    ELSE << rows[1] >> \o DropRepeats(Tail(rows))

\* pd.concat followed by a drop of repeated rows.
RECURSIVE ConcatDropsRepeats(_, _)
ConcatDropsRepeats(dfs, i) ==
    IF i > Len(dfs) THEN <<>> ELSE DropRepeats(dfs[i] \o ConcatDropsRepeats(dfs, i + 1))

\* pd.concat that puts the later datasets first.
RECURSIVE ConcatReversed(_, _)
ConcatReversed(dfs, i) ==
    IF i > Len(dfs) THEN <<>> ELSE ConcatReversed(dfs, i + 1) \o dfs[i]

\* pd.concat(collected, ignore_index=True)
RECURSIVE Concat(_, _)
Concat(dfs, i) == IF i > Len(dfs) THEN <<>> ELSE dfs[i] \o Concat(dfs, i + 1)

\* -------------------------------------------------------------- the run
VARIABLES
    variant,              \* which ScrapeReviews: "scrapper" or "scraper"
    running_on_streamlit, \* app.py: live scraping disabled
    no_of_products,       \* self.no_of_products
    pc,                   \* position of the button handler / get_review_data
    driver,               \* self.driver: "none", "open", "quit"
    page,                 \* the document the driver holds
    product_urls,         \* product_urls of get_review_data
    idx,                  \* 1-based position of the for loop over product_urls
    review_page,          \* what extract_reviews returned for product idx
    collected,            \* the list of per-product datasets
    result,               \* what get_review_data returned
    outcome,              \* "none", "dataset", or the exception raised to the app
    raised_in,            \* the method whose exception reached the app
    quit_calls,           \* number of driver.quit calls
    extract_calls,        \* positions for which extract_products was called
    not_found,            \* positions for which extract_reviews returned nothing
    resolved,             \* what the selector resolution of the current page did
    df,                   \* df of the button handler
    product_name,         \* the text of the product name input
    stored,               \* the rows of the query's collection in MongoDB
    session_data,         \* st.session_state["data"]
    scroll,               \* the _scroll_down / scroll_to_load_reviews call in progress
    click,                \* what the click-through step did on the product page loaded
    located,              \* the positions extract_reviews was called for, in call order
    slept,                \* the positions after whose processing _sleep ran, in call order
    mongo                 \* the MongoDB database and the last MongoIO call made on it

vars == << variant, running_on_streamlit, no_of_products, pc, driver, page, product_urls,
           idx, review_page, collected, result, outcome, raised_in, quit_calls,
           extract_calls, not_found, resolved, df, product_name, stored, session_data,
           scroll, click, located, slept, mongo >>

\* The request, fixed for the run.
request == << variant, running_on_streamlit, no_of_products, product_name >>

\* What only the end of the handler writes.
app_store == << stored, session_data >>

\* Everything but the scroll call.
run == << variant, running_on_streamlit, no_of_products, pc, driver, page, product_urls,
         idx, review_page, collected, result, outcome, raised_in, quit_calls,
         extract_calls, not_found, resolved, df, product_name, stored, session_data,
         click, located, slept, mongo >>

\* An optional int argument: None, or a number.
NoArg == [none |-> TRUE, value |-> 0]
Arg(n) == [none |-> FALSE, value |-> n]

\* The local state of a scroll call: the max_scrolls argument, self.max_scrolls,
\* the ceiling the loop runs to, last_height, the height the last iteration
\* measured and the one it compared it with, the number of scrollTo calls made,
\* and whether a browser call raised.
ScrollCall(at, arg, self_max, ceiling) ==
    [pc |-> at, arg |-> arg, self_max_scrolls |-> self_max, max_scrolls |-> ceiling,
     last_height |-> 0, new_height |-> 0, compared |-> 0, scrolls |-> 0, raised |-> FALSE]

\* No scroll call is in progress.
NoScroll == ScrollCall("idle", NoArg, 0, 0)

\* Python: name.strip(), for a text whose blanks are " " tokens
RECURSIVE Strip(_)
Strip(name) ==
    IF name = <<>> THEN name
    ELSE IF Head(name) = " " THEN Strip(Tail(name))
    ELSE IF name[Len(name)] = " " THEN Strip(SubSeq(name, 1, Len(name) - 1))
    ELSE name

\* The product names typed into the form: a blank one and a query.
ProductNames == { << " " >>, << " ", "tshirt" >> }

SeqsUpTo(S, n) == UNION { [1..k -> S] : k \in 0..n }

\* A DataFrame variable of the caller: None, or rows.
NoDf == [none |-> TRUE, rows |-> <<>>]
Df(rows) == [none |-> FALSE, rows |-> rows]

\* ------------------------------------------------------------- MongoIO
\* The most documents in the database, and the most rows of a dataset handed
\* to store_reviews.
MaxDocs == 3
MaxStoreRows == 2

\* Product names as sequences of characters, in several spellings.
StoreNames ==
    { << "t", "s" >>, << " ", "T", "s", " " >>, << "t", " ", "s" >>, << "T", "_", "S" >>,
      << "s" >> }

\* Python: str.lower() of one character
Lower(c) == IF c = "T" THEN "t" ELSE IF c = "S" THEN "s" ELSE c

\* Python: name.replace(" ", "_")
ReplaceSpaces(name) == [ i \in DOMAIN name |-> IF name[i] = " " THEN "_" ELSE name[i] ]

\* _normalize_collection_name: name.strip().replace(" ", "_").lower()
NormalizeCollectionName(name) ==
    LET replaced == ReplaceSpaces(Strip(name))
    IN  [ i \in DOMAIN replaced |-> Lower(replaced[i]) ]

\* The collections the names address.
Collections == { NormalizeCollectionName(n) : n \in StoreNames }

\* The rows of the datasets handed to store_reviews.
StoreRows ==
    { [ProductName |-> "T1", Over_All_Rating |-> NoText, Price |-> NoText, Date |-> "2024",
       Rating |-> r, Name |-> "Asha", Comment |-> "good"] : r \in {"4", "5"} }

\* What store_reviews may be handed: None, an empty dataset, or rows.
StoreDatasets == {NoDf} \cup { Df(rows) : rows \in SeqsUpTo(StoreRows, MaxStoreRows) }

\* reviews.to_dict(orient="records")
ToRecords(reviews) == reviews.rows

\* insert_many with the `_id` of the documents left out: the documents take
\* the place of those of the collection.
InsertManyReplaces(collection, records, next_id) ==
    [ i \in 1..Len(records) |-> [id |-> next_id + i - 1, doc |-> records[i]] ]

\* collection.insert_many(records): every record becomes a document with a
\* new _id, after the documents the collection has.
InsertMany(collection, records, next_id) ==
    collection \o [ i \in 1..Len(records) |-> [id |-> next_id + i - 1, doc |-> records[i]] ]

\* list(collection.find({}, {"_id": 0})): the documents without their _id
Find(collection) == [ i \in DOMAIN collection |-> collection[i].doc ]

\* MongoIO.store_reviews: the database afterwards and the count returned.
MongoStoreReviews(db, next_id, name, reviews) ==
    IF reviews.none \/ reviews.rows = <<>>
    THEN [db |-> db, next_id |-> next_id, inserted |-> 0]
    ELSE LET collection_name == NormalizeCollectionName(name)
             records == ToRecords(reviews)
         IN  IF records = <<>>
             THEN [db |-> db, next_id |-> next_id, inserted |-> 0]
             ELSE LET docs == InsertMany(db[collection_name], records, next_id)
                  IN  [db |-> [db EXCEPT ![collection_name] = docs],
                       next_id |-> next_id + Len(records),
                       inserted |-> Len(records)]

\* MongoIO.get_reviews
MongoGetReviews(db, name) ==
    LET data == Find(db[NormalizeCollectionName(name)])
    IN  IF data = <<>> THEN Df(<<>>) ELSE Df(data)

\* The database with no documents, and the state before any MongoIO call.
EmptyDb == [ c \in Collections |-> <<>> ]
NoMongo ==
    [db |-> EmptyDb, next_id |-> 1, op |-> "none", name |-> <<>>, reviews |-> NoDf,
     inserted |-> 0, fetched |-> NoDf, before |-> EmptyDb]

\* No resolution was made on the current page; else the elements returned, the
\* number of strategies evaluated and the index of the winning one (0: none).
NoResolution == [done |-> FALSE, elems |-> <<>>, tried |-> 0, won |-> 0]
Resolution(r, elems) == [done |-> TRUE, elems |-> elems, tried |-> r.tried, won |-> r.won]

BlankPage == [kind |-> "blank"]
ErrorPage == [kind |-> "error"]

\* Search pages under SpecPages and of a whole run.
WidePages == { SearchPage(a, {}) : a \in SeqsUpTo(Elements, MaxLinks) }
RunPages ==
    { SearchPage(a, b) : a \in SeqsUpTo(RunElements, MaxRunLinks),
                         b \in { {}, {selectors[1]}, {FallbackSelector} } }

\* The <title> text of the review page of the i-th product.
TitleOf(i) == "T" \o ToString(i)

\* Review pages of the current product, under SpecPages and of a whole run.
WideReviewPages ==
    { ReviewPage(FALSE, t, b) : t \in {TitleOf(idx), NoText}, b \in SeqsUpTo(Blocks, MaxWideBlocks) }
RunReviewPages ==
    { ReviewPage(TRUE, NoText, <<>>) }
    \cup { ReviewPage(FALSE, TitleOf(idx), b) : b \in SeqsUpTo(RunBlocks, MaxBlocks) }

Init ==
    /\ variant \in {"scrapper", "scraper"}
    /\ running_on_streamlit \in BOOLEAN
    /\ no_of_products \in 1..MaxRunN
    /\ pc = "start"
    /\ driver = "none"
    /\ page = BlankPage
    /\ product_urls = <<>>
    /\ idx = 0
    /\ review_page = None
    /\ collected = <<>>
    /\ result = NoDf
    /\ outcome = "none"
    /\ raised_in = ""
    /\ quit_calls = 0
    /\ extract_calls = {}
    /\ not_found = {}
    /\ resolved = NoResolution
    /\ df = NoDf
    /\ product_name \in ProductNames
    /\ stored = <<>>
    /\ session_data = FALSE
    /\ scroll = NoScroll
    /\ click = NoClick
    /\ located = <<>>
    /\ slept = <<>>
    /\ mongo = NoMongo

\* app.py: a blank product name only gets a warning.
EmptyName ==
    /\ pc = "start"
    /\ Strip(product_name) = <<>>
    /\ pc' = "done"
    /\ UNCHANGED << request, scroll, mongo, slept, located, click, not_found, driver, page, product_urls, idx, review_page, collected,
                    result, outcome, raised_in, quit_calls, extract_calls, resolved, df,
                    app_store >>

\* An exception leaves get_review_data (or the constructor) for the handler's
\* `except Exception` clause.
RaiseToApp(kind, where) ==
    /\ pc' = "except"
    /\ outcome' = kind
    /\ raised_in' = where

\* app.py: scraping is disabled on Streamlit Cloud.
Disabled ==
    /\ pc = "start"
    /\ Strip(product_name) # <<>>
    /\ running_on_streamlit
    /\ RaiseToApp("Exception", "app")
    /\ UNCHANGED << request, scroll, mongo, slept, located, click, not_found, driver, page, product_urls, idx, review_page, collected,
                    result, quit_calls, extract_calls, resolved, df, app_store >>

\* __init__ with the failure swallowed: the run goes on without a driver.
ConstructIgnoresFailure ==
    /\ pc = "start"
    /\ Strip(product_name) # <<>>
    /\ ~running_on_streamlit
    /\ \E started \in BOOLEAN : driver' = IF started THEN "open" ELSE "none"
    /\ pc' = "discover"
    /\ UNCHANGED << request, scroll, mongo, slept, located, click, not_found, page, product_urls, idx, review_page, collected, result,
                    outcome, raised_in, quit_calls, extract_calls, resolved, df, app_store >>

\* ScrapeReviews.__init__: the browser starts, or CustomException.
Construct ==
    /\ pc = "start"
    /\ Strip(product_name) # <<>>
    /\ ~running_on_streamlit
    /\ \E started \in BOOLEAN :
         IF started
         THEN /\ driver' = "open"
              /\ pc' = "discover"
              /\ UNCHANGED << outcome, raised_in >>
         ELSE /\ driver' = "none"
              /\ RaiseToApp("CustomException", "__init__")
    /\ UNCHANGED << request, scroll, mongo, slept, located, click, not_found, page, product_urls, idx, review_page, collected, result,
                    quit_calls, extract_calls, resolved, df, app_store >>

\* The selector resolution scrape_product_urls made on the page; the scraper
\* variant selects with one combined selector.
SearchResolution(v, pg) ==
    IF v = "scrapper"
    THEN LET r == ResolveProductLinks(pg) IN Resolution(r, r.anchors)
    ELSE NoResolution

\* get_review_data up to the loop: scrape_product_urls and the empty check.
Discover(Pages) ==
    /\ pc = "discover"
    /\ \E pg \in Pages \cup {ErrorPage} :
         /\ page' = pg
         /\ resolved' = IF pg = ErrorPage THEN NoResolution ELSE SearchResolution(variant, pg)
         /\ LET r == IF pg = ErrorPage THEN [raised |-> TRUE, urls |-> <<>>]
                     ELSE ProductUrls(variant, pg, no_of_products)
            IN  IF r.raised
                THEN /\ RaiseToApp("CustomException", "scrape_product_urls")
                     /\ UNCHANGED << product_urls, idx, result >>
                ELSE /\ product_urls' = r.urls
                     /\ IF r.urls = <<>>
                        THEN /\ result' = Df(<<>>)
                             /\ outcome' = "dataset"
                             /\ pc' = "returned"
                             /\ UNCHANGED << idx, raised_in >>
                        ELSE /\ idx' = 1
                             /\ pc' = "loop"
                             /\ UNCHANGED << result, outcome, raised_in >>
    /\ UNCHANGED << request, scroll, mongo, slept, located, click, not_found, driver, review_page, collected, quit_calls, extract_calls, df, app_store >>

\* The per-product try/except lost: the exception leaves get_review_data.
ProductRaisedPropagates(where) ==
    /\ RaiseToApp("CustomException", where)
    /\ UNCHANGED idx

\* What a per-product exception does: the scrapper variant catches it and
\* continues with the next product, the scraper variant lets it out.
ProductRaised(where) ==
    IF variant = "scrapper"
    THEN /\ idx' = idx + 1
         /\ pc' = "loop"
         /\ UNCHANGED << outcome, raised_in >>
    ELSE /\ RaiseToApp("CustomException", where)
         /\ UNCHANGED idx

\* Locate with the `if review_page:` test lost: extract_products is called
\* with whatever extract_reviews returned.
LocateWithoutTest(Pages) ==
    /\ pc = "loop"
    /\ idx <= Len(product_urls)
    /\ resolved' = NoResolution
    /\ located' = Append(located, idx)
    /\ \E pp \in Pages :
         /\ page' = pp
         /\ click' = IF variant = "scrapper" /\ ~pp.fails
                     THEN TryClickSteps(pp.controls, 1, <<>>) ELSE NoClick
         /\ LET r == ExtractReviews(variant, product_urls[idx], pp)
            IN  IF r.raised
                THEN /\ ProductRaised("extract_reviews")
                     /\ UNCHANGED << review_page, not_found >>
                ELSE /\ review_page' = r.url
                     /\ not_found' = IF Truthy(r.url) THEN not_found ELSE not_found \cup {idx}
                     /\ UNCHANGED << outcome, raised_in, idx >>
                     /\ pc' = "extract"
    /\ UNCHANGED << request, scroll, mongo, slept, driver, product_urls, collected, result, quit_calls,
                    extract_calls, df, app_store >>

\* One iteration's extract_reviews call.
Locate(Pages) ==
    /\ pc = "loop"
    /\ idx <= Len(product_urls)
    /\ resolved' = NoResolution
    /\ located' = Append(located, idx)
    /\ \E pp \in Pages :
         /\ page' = pp
         /\ click' = IF variant = "scrapper" /\ ~pp.fails
                     THEN TryClickSteps(pp.controls, 1, <<>>) ELSE NoClick
         /\ LET r == ExtractReviews(variant, product_urls[idx], pp)
            IN  IF r.raised
                THEN /\ ProductRaised("extract_reviews")
                     /\ UNCHANGED << review_page, not_found >>
                ELSE /\ review_page' = r.url
                     /\ not_found' = IF Truthy(r.url) THEN not_found ELSE not_found \cup {idx}
                     /\ UNCHANGED << outcome, raised_in >>
                     /\ IF Truthy(r.url)
                        THEN pc' = "extract" /\ UNCHANGED idx
                        ELSE IF variant = "scrapper"
                             THEN pc' = "sleep" /\ UNCHANGED idx
                             ELSE pc' = "loop" /\ idx' = idx + 1
    /\ UNCHANGED << request, scroll, mongo, slept, driver, product_urls, collected, result, quit_calls,
                    extract_calls, df, app_store >>

\* The selector resolution extract_products made on the page.
ReviewResolution(v, rp) ==
    IF v = "scrapper" /\ ~rp.fails
    THEN LET r == ResolveBlocks(rp.blocks, 1) IN Resolution(r, r.blocks)
    ELSE NoResolution

\* One iteration's extract_products call and the append.
Extract(Pages) ==
    /\ pc = "extract"
    /\ extract_calls' = extract_calls \cup {idx}
    /\ click' = NoClick
    /\ \E rp \in Pages :
         /\ page' = rp
         /\ resolved' = ReviewResolution(variant, rp)
         /\ LET r == ExtractProducts(variant, rp)
            IN  IF r.raised
                THEN /\ ProductRaised("extract_products")
                     /\ UNCHANGED collected
                ELSE /\ collected' = IF r.df # <<>> THEN Append(collected, r.df) ELSE collected
                     /\ pc' = "sleep"
                     /\ UNCHANGED << idx, outcome, raised_in >>
    /\ UNCHANGED << request, scroll, mongo, slept, located, not_found, driver, product_urls, review_page, result, quit_calls, df, app_store >>

\* Sleep that goes back to the same product.
SleepStays ==
    /\ pc = "sleep"
    /\ slept' = Append(slept, idx)
    /\ pc' = "loop"
    /\ UNCHANGED << request, scroll, mongo, located, click, not_found, driver, page, product_urls, idx, review_page,
                    collected, result, outcome, raised_in, quit_calls, extract_calls, resolved,
                    df, app_store >>

\* Sleep that steps over the next product.
SleepSkips ==
    /\ pc = "sleep"
    /\ slept' = Append(slept, idx)
    /\ idx' = idx + 2
    /\ pc' = "loop"
    /\ UNCHANGED << request, scroll, mongo, located, click, not_found, driver, page, product_urls, review_page,
                    collected, result, outcome, raised_in, quit_calls, extract_calls, resolved,
                    df, app_store >>

\* The pause between product fetches, then the next iteration.
Sleep ==
    /\ pc = "sleep"
    /\ slept' = Append(slept, idx)
    /\ idx' = idx + 1
    /\ pc' = "loop"
    /\ UNCHANGED << request, scroll, mongo, located, click, not_found, driver, page, product_urls, review_page, collected, result,
                    outcome, raised_in, quit_calls, extract_calls, resolved, df, app_store >>

\* Finish with the `if not collected` check lost: pd.concat of an empty list
\* raises ValueError, which leaves get_review_data as CustomException.
FinishConcatsAlways ==
    /\ pc = "loop"
    /\ idx > Len(product_urls)
    /\ IF collected = <<>>
       THEN /\ RaiseToApp("CustomException", "get_review_data")
            /\ UNCHANGED result
       ELSE /\ result' = Df(Concat(collected, 1))
            /\ outcome' = "dataset"
            /\ pc' = "returned"
            /\ UNCHANGED raised_in
    /\ UNCHANGED << request, scroll, mongo, slept, located, click, not_found, driver, page, product_urls, idx, review_page, collected,
                    quit_calls, extract_calls, resolved, df, app_store >>

\* After the loop: an empty dataset when nothing was collected, else the
\* concatenated one.
Finish ==
    /\ pc = "loop"
    /\ idx > Len(product_urls)
    /\ result' = IF collected = <<>> THEN Df(<<>>) ELSE Df(Concat(collected, 1))
    /\ outcome' = "dataset"
    /\ pc' = "returned"
    /\ UNCHANGED << request, scroll, mongo, slept, located, click, not_found, driver, page, product_urls, idx, review_page, collected,
                    raised_in, quit_calls, extract_calls, resolved, df, app_store >>

\* close() without its try/except: a failing driver.quit() reaches the caller.
CloseLetsQuitFailureOut ==
    /\ quit_calls' = IF driver # "none" THEN quit_calls + 1 ELSE quit_calls
    /\ \E quit_ok \in BOOLEAN :
         /\ driver' = IF driver # "none" /\ quit_ok THEN "quit" ELSE driver
         /\ IF driver # "none" /\ ~quit_ok
            THEN outcome' = "Exception" /\ raised_in' = "close"
            ELSE UNCHANGED << outcome, raised_in >>

\* close(): driver.quit() when there is a driver; an exception of quit is
\* swallowed and nothing is raised.
Close ==
    /\ quit_calls' = IF driver # "none" THEN quit_calls + 1 ELSE quit_calls
    /\ \E quit_ok \in BOOLEAN :
         driver' = IF driver # "none" /\ quit_ok THEN "quit" ELSE driver
    /\ UNCHANGED << outcome, raised_in >>

\* app.py after get_review_data returned: df is bound, then scraper.close(),
\* inside the handler's try.
AppClose ==
    /\ pc = "returned"
    /\ df' = result
    /\ Close
    /\ pc' = IF raised_in' = "close" THEN "except" ELSE "display"
    /\ UNCHANGED << request, scroll, mongo, slept, located, click, not_found, page, product_urls, idx, review_page, collected, result,
                    extract_calls, resolved, app_store >>

\* The saved reviews of data/myntra_reviews_extracted.csv.
CsvRows == << [ProductName |-> "saved", Over_All_Rating |-> NoText, Price |-> NoText,
               Date |-> NoText, Rating |-> "4", Name |-> NoText, Comment |-> "saved"] >>

\* app.py's except clause: the warning, then the CSV fallback.
AppFallback ==
    /\ pc = "except"
    /\ \E csv \in {NoDf, Df(CsvRows)} : df' = csv
    /\ pc' = "display"
    /\ UNCHANGED << request, scroll, mongo, slept, located, click, not_found, driver, page, product_urls, idx, review_page, collected,
                    result, outcome, raised_in, quit_calls, extract_calls, resolved, app_store >>

\* MongoIO.store_reviews: the rows are appended to the collection.
StoreReviews(collection, reviews) ==
    IF reviews.none \/ reviews.rows = <<>> THEN collection ELSE collection \o reviews.rows

\* app.py: the handler shows what it has, saves it to MongoDB when it runs
\* outside Streamlit Cloud, and ends.
AppDisplay ==
    /\ pc = "display"
    /\ pc' = "done"
    /\ IF df.none \/ df.rows = <<>> \/ running_on_streamlit
       THEN UNCHANGED app_store
       ELSE \E mongo_ok \in BOOLEAN :
              IF mongo_ok
              THEN stored' = StoreReviews(stored, df) /\ session_data' = TRUE
              ELSE UNCHANGED app_store
    /\ UNCHANGED << request, scroll, mongo, slept, located, click, not_found, driver, page, product_urls, idx, review_page, collected,
                    result, outcome, raised_in, quit_calls, extract_calls, resolved, df >>

Next ==
    \/ EmptyName
    \/ Disabled
    \/ Construct
    \/ Discover(RunPages)
    \/ Locate(ProductPages)
    \/ Extract(RunReviewPages)
    \/ Sleep
    \/ Finish
    \/ AppClose
    \/ AppFallback
    \/ AppDisplay

Spec == Init /\ [][Next]_vars

\* ------------------------------------------------------------ single pages
\* scrape_product_urls and extract_products against all pages up to MaxLinks
\* anchors and MaxWideBlocks blocks: the run stands before its discovery, or
\* before the extraction of its first product.
InitPages ==
    /\ variant \in {"scrapper", "scraper"}
    /\ running_on_streamlit = FALSE
    /\ product_name = << " ", "tshirt" >>
    /\ stored = <<>>
    /\ session_data = FALSE
    /\ scroll = NoScroll
    /\ click = NoClick
    /\ located = <<>>
    /\ slept = <<>>
    /\ mongo = NoMongo
    /\ driver = "open"
    /\ collected = <<>>
    /\ result = NoDf
    /\ outcome = "none"
    /\ raised_in = ""
    /\ quit_calls = 0
    /\ extract_calls = {}
    /\ not_found = {}
    /\ resolved = NoResolution
    /\ df = NoDf
    /\ \/ /\ pc = "discover"
          /\ no_of_products \in 1..MaxN
          /\ page = BlankPage
          /\ product_urls = <<>>
          /\ idx = 0
          /\ review_page = None
       \/ /\ pc = "extract"
          /\ no_of_products = 1
          /\ page = ProductPage(FALSE, <<"absent", "absent", "absent", "absent">>,
                                TRUE, FALSE, FALSE, None)
          /\ product_urls = << U1 >>
          /\ idx = 1
          /\ review_page = U1

NextPages ==
    \/ Discover(WidePages)
    \/ Extract(WideReviewPages)

SpecPages == InitPages /\ [][NextPages]_vars

\* ------------------------------------------------------- review locator
\* extract_reviews against the product pages with every spelling of the
\* anchor href: the run of the scrapper variant stands at the head of its loop
\* with one or two candidates.
InitLocate ==
    /\ variant = "scrapper"
    /\ running_on_streamlit = FALSE
    /\ product_name = << " ", "tshirt" >>
    /\ stored = <<>>
    /\ session_data = FALSE
    /\ scroll = NoScroll
    /\ click = NoClick
    /\ located = <<>>
    /\ slept = <<>>
    /\ mongo = NoMongo
    /\ driver = "open"
    /\ collected = <<>>
    /\ result = NoDf
    /\ outcome = "none"
    /\ raised_in = ""
    /\ quit_calls = 0
    /\ extract_calls = {}
    /\ not_found = {}
    /\ resolved = NoResolution
    /\ df = NoDf
    /\ pc = "loop"
    /\ product_urls \in { << U1 >>, << U1, U2 >> }
    /\ no_of_products = Len(product_urls)
    /\ page = SearchPage(<<>>, {})
    /\ idx = 1
    /\ review_page = None

NextLocate == Locate(WideProductPages)

SpecLocate == InitLocate /\ [][NextLocate]_vars

\* ------------------------------------------------------ document store
\* The number of documents of the database.
RECURSIVE DocCount(_, _)
DocCount(db, cs) ==
    IF cs = {} THEN 0
    ELSE LET c == CHOOSE x \in cs : TRUE IN Len(db[c]) + DocCount(db, cs \ {c})

\* store_reviews and get_reviews called in any order on one database, as
\* src/test_store.py does once.
InitStore ==
    /\ variant = "scrapper"
    /\ running_on_streamlit = FALSE
    /\ product_name = << " ", "tshirt" >>
    /\ no_of_products = 1
    /\ stored = <<>>
    /\ session_data = FALSE
    /\ scroll = NoScroll
    /\ click = NoClick
    /\ located = <<>>
    /\ slept = <<>>
    /\ mongo = NoMongo
    /\ driver = "none"
    /\ collected = <<>>
    /\ result = NoDf
    /\ outcome = "none"
    /\ raised_in = ""
    /\ quit_calls = 0
    /\ extract_calls = {}
    /\ not_found = {}
    /\ resolved = NoResolution
    /\ df = NoDf
    /\ pc = "start"
    /\ product_urls = <<>>
    /\ page = BlankPage
    /\ idx = 0
    /\ review_page = None

\* One call of mongo.store_reviews(name, reviews).
StoreCall ==
    \E name \in StoreNames, reviews \in StoreDatasets :
        /\ DocCount(mongo.db, Collections) + Len(reviews.rows) <= MaxDocs
        /\ LET r == MongoStoreReviews(mongo.db, mongo.next_id, name, reviews)
           IN  mongo' = [db |-> r.db, next_id |-> r.next_id, op |-> "store_reviews",
                         name |-> name, reviews |-> reviews, inserted |-> r.inserted,
                         fetched |-> NoDf, before |-> mongo.db]
        /\ UNCHANGED << request, scroll, slept, located, click, not_found, driver, page,
                        product_urls, idx, review_page, collected, result, outcome,
                        raised_in, quit_calls, extract_calls, resolved, df, app_store, pc >>

\* One call of mongo.get_reviews(name).
GetCall ==
    \E name \in StoreNames :
        /\ mongo' = [db |-> mongo.db, next_id |-> mongo.next_id, op |-> "get_reviews",
                     name |-> name, reviews |-> NoDf, inserted |-> 0,
                     fetched |-> MongoGetReviews(mongo.db, name), before |-> mongo.db]
        /\ UNCHANGED << request, scroll, slept, located, click, not_found, driver, page,
                        product_urls, idx, review_page, collected, result, outcome,
                        raised_in, quit_calls, extract_calls, resolved, df, app_store, pc >>

NextStore ==
    \/ StoreCall
    \/ GetCall

SpecStore == InitStore /\ [][NextStore]_vars

\* ---------------------------------------------------------- link filter
\* The most anchors of a search page under SpecLinks.
MaxSiteLinks == 3

\* Product-card anchors whose hrefs are a product page of the site, a page of
\* the site that is no product page, a product-shaped page of another site,
\* and neither.
LinkElements ==
    { Element("li.product-base", U1, FALSE),
      Element("li.product-base", M0, FALSE),
      Element("li.product-base", X9, FALSE),
      Element("li.product-base", O0, FALSE) }

LinkPages == { SearchPage(a, {}) : a \in SeqsUpTo(LinkElements, MaxSiteLinks) }

\* scrape_product_urls against every page of up to MaxSiteLinks such anchors.
InitLinks == InitPages /\ pc = "discover"

NextLinks == Discover(LinkPages)

SpecLinks == InitLinks /\ [][NextLinks]_vars

\* ------------------------------------------------------------------ close
\* The most driver.quit calls of one session.
MaxCloses == 3

\* The end of a run whose caller calls close() as often as it likes:
\* get_review_data has just returned an empty dataset from a search page
\* without anchors, or raised on a search page that did not load.
InitClose ==
    /\ variant \in {"scrapper", "scraper"}
    /\ running_on_streamlit = FALSE
    /\ no_of_products \in 1..MaxRunN
    /\ product_name = << " ", "tshirt" >>
    /\ stored = <<>>
    /\ session_data = FALSE
    /\ driver = "open"
    /\ product_urls = <<>>
    /\ idx = 0
    /\ review_page = None
    /\ collected = <<>>
    /\ quit_calls = 0
    /\ extract_calls = {}
    /\ not_found = {}
    /\ df = NoDf
    /\ scroll = NoScroll
    /\ click = NoClick
    /\ located = <<>>
    /\ slept = <<>>
    /\ mongo = NoMongo
    /\ \/ /\ pc = "returned"
          /\ page = SearchPage(<<>>, {})
          /\ resolved = SearchResolution(variant, page)
          /\ result = Df(<<>>)
          /\ outcome = "dataset"
          /\ raised_in = ""
       \/ /\ pc = "except"
          /\ page = ErrorPage
          /\ resolved = NoResolution
          /\ result = NoDf
          /\ outcome = "CustomException"
          /\ raised_in = "scrape_product_urls"

\* One more close() by the caller of the object, after the handler's own.
CloseAgain ==
    /\ pc \in {"display", "done"}
    /\ driver # "none"
    /\ quit_calls < MaxCloses
    /\ Close
    /\ UNCHANGED << request, scroll, mongo, slept, located, click, not_found, pc, page, product_urls, idx, review_page,
                    collected, result, extract_calls, resolved, df, app_store >>

NextClose ==
    \/ AppClose
    \/ AppFallback
    \/ AppDisplay
    \/ CloseAgain

SpecClose == InitClose /\ [][NextClose]_vars

\* ------------------------------------------------------- scroll to bottom
\* The largest max_scrolls and the largest document height of a scroll call.
MaxScrolls == 3
MaxHeight == 3

\* What document.body.scrollHeight may answer.
Heights == 1..MaxHeight

\* The ceiling of the loop: `max_scrolls or self.max_scrolls` in the scrapper
\* variant, the argument itself in the scraper variant.
Ceiling(v, arg, self_max) ==
    IF v = "scrapper"
    THEN IF arg.none \/ arg.value = 0 THEN self_max ELSE arg.value
    ELSE arg.value

\* A scroll call of extract_products: the run stands in the extraction of its
\* first product, with any argument and any self.max_scrolls up to MaxScrolls.
InitScroll ==
    /\ variant \in {"scrapper", "scraper"}
    /\ running_on_streamlit = FALSE
    /\ product_name = << " ", "tshirt" >>
    /\ stored = <<>>
    /\ session_data = FALSE
    /\ driver = "open"
    /\ collected = <<>>
    /\ result = NoDf
    /\ outcome = "none"
    /\ raised_in = ""
    /\ quit_calls = 0
    /\ extract_calls = {}
    /\ not_found = {}
    /\ resolved = NoResolution
    /\ df = NoDf
    /\ pc = "extract"
    /\ no_of_products = 1
    /\ page = ProductPage(FALSE, <<"absent", "absent", "absent", "absent">>,
                          TRUE, FALSE, FALSE, None)
    /\ product_urls = << U1 >>
    /\ idx = 1
    /\ review_page = U1
    /\ click = NoClick
    /\ located = <<>>
    /\ slept = <<>>
    /\ mongo = NoMongo
    /\ \E n \in 0..MaxScrolls, self_max \in 0..MaxScrolls :
         \E arg \in IF variant = "scrapper" THEN {NoArg, Arg(n)} ELSE {Arg(n)} :
           scroll = ScrollCall("called", arg, self_max, Ceiling(variant, arg, self_max))

\* The scroll call returns.
ScrollReturn(sc) == [sc EXCEPT !.pc = "returned"]

\* A browser call of the scroll raised: both variants ignore it and return.
ScrollRaised(sc) == [sc EXCEPT !.pc = "returned", !.raised = TRUE]

\* The loop header of a `while True`: no ceiling.
ScrollLoopHeaderNoCeiling(sc) == [sc EXCEPT !.pc = "loop"]

\* The loop header `for _ in range(max_scrolls)` after sc.scrolls iterations.
ScrollLoopHeader(sc) ==
    IF sc.scrolls < sc.max_scrolls THEN [sc EXCEPT !.pc = "loop"] ELSE ScrollReturn(sc)

\* The first height measurement, before the loop.
ScrollMeasure ==
    /\ scroll.pc = "called"
    /\ \/ scroll' = ScrollRaised(scroll)
       \/ \E h \in Heights : scroll' = ScrollLoopHeader([scroll EXCEPT !.last_height = h])
    /\ UNCHANGED run

\* One iteration: scroll to the bottom, pause, measure, compare.
ScrollIteration ==
    /\ scroll.pc = "loop"
    /\ \/ scroll' = ScrollRaised(scroll)
       \/ scroll' = ScrollRaised([scroll EXCEPT !.scrolls = @ + 1])
       \/ \E h \in Heights :
            LET sc == [scroll EXCEPT !.scrolls = @ + 1, !.new_height = h,
                                     !.compared = scroll.last_height]
            IN  scroll' = IF h = scroll.last_height THEN ScrollReturn(sc)
                          ELSE ScrollLoopHeader([sc EXCEPT !.last_height = h])
    /\ UNCHANGED run

NextScroll ==
    \/ ScrollMeasure
    \/ ScrollIteration

SpecScroll == InitScroll /\ [][NextScroll]_vars

\* ------------------------------------------------------------- discovery
\* scrape_product_urls has returned and the driver still holds the search page.
Discovered == page.kind = "search" /\ pc \in {"loop", "returned"}

NoDuplicates(s) == \A i, j \in DOMAIN s : i # j => s[i] # s[j]

\* C1: for every productLimit N >= 1 and every sequence of matched links,
\* repeated hrefs included, scrape_product_urls returns at most N URLs and no
\* URL twice, in both scraper variants.
C1_AtMostNAndNoDuplicates ==
    Discovered => Len(product_urls) <= no_of_products /\ NoDuplicates(product_urls)

\* Two anchors of the page carry the same href and N >= 2 URLs came back.
C1_Witness ==
    /\ Discovered
    /\ no_of_products >= 2
    /\ Len(product_urls) = no_of_products
    /\ \E i, j \in DOMAIN page.anchors :
         i < j /\ page.anchors[i].href = page.anchors[j].href /\ page.anchors[i].href = U1

\* The links of the resolved anchors that pass the acceptance test of the
\* scrapper variant, normalised, in page order.
RECURSIVE AcceptedLinks(_, _)
AcceptedLinks(anchors, i) ==
    IF i > Len(anchors) THEN <<>>
    ELSE LET el == anchors[i]
             rest == AcceptedLinks(anchors, i + 1)
         IN  IF ~el.stale /\ el.href # NoHref /\ Accepted(el.href)
             THEN << Normalize(el.href) >> \o rest
             ELSE rest

\* The first occurrence of every value of s, in order.
RECURSIVE FirstOccurrences(_, _)
FirstOccurrences(s, i) ==
    IF i = 0 THEN <<>>
    ELSE LET before == FirstOccurrences(s, i - 1)
         IN  IF \E j \in 1..(i - 1) : s[j] = s[i] THEN before ELSE Append(before, s[i])

\* C2: discovery of the scrapper variant deduplicates the full list of
\* accepted links in first-seen order and only then truncates: the result is
\* the first min(N, D) distinct accepted URLs of the page.
C2_DedupeThenTruncate ==
    (Discovered /\ variant = "scrapper")
        => LET accepted == AcceptedLinks(resolved.elems, 1)
           IN  product_urls = Take(FirstOccurrences(accepted, Len(accepted)), no_of_products)

\* ------------------------------------------------------------ extraction
\* Python: the field is present (not None)
Present(text) == text # NoText

RecordHasContent(rec) == Present(rec.Comment) \/ Present(rec.Rating)

\* C3: every record of a dataset get_review_data of the scrapper variant
\* collects or returns has its comment or its rating present; a block with
\* neither produces no record.
C3_RecordsHaveCommentOrRating ==
    variant = "scrapper"
        => /\ \A k \in DOMAIN collected : \A n \in DOMAIN collected[k] :
                RecordHasContent(collected[k][n])
           /\ \A n \in DOMAIN result.rows : RecordHasContent(result.rows[n])

\* A dataset with records was returned, and the last page extracted held a
\* block with neither rating nor comment beside a block that became a record.
C3_Witness ==
    /\ variant = "scrapper"
    /\ pc = "returned"
    /\ result.rows # <<>>
    /\ page.kind = "review"
    /\ ~page.fails
    /\ \E i, j \in DOMAIN resolved.elems :
         /\ ~resolved.elems[i].bad
         /\ ~Present(resolved.elems[i].rating) /\ ~Present(resolved.elems[i].comment)
         /\ ~resolved.elems[j].bad /\ Present(resolved.elems[j].comment)

\* ---------------------------------------------------- selector resolution
\* The strategies of the product-link resolution, the fallback last.
Strategies == selectors \o << FallbackSelector >>

\* The least member of a non-empty set of numbers, 0 for the empty set.
Least(S) == IF S = {} THEN 0 ELSE CHOOSE i \in S : \A j \in S : i <= j

\* The first strategy, in list order, that yields at least one element.
FirstLinkStrategy(pg) ==
    Least({ i \in DOMAIN Strategies :
              Strategies[i] \notin pg.broken /\ FindElements(pg.anchors, Strategies[i]) # <<>> })

FirstBlockStrategy(rp) ==
    Least({ i \in DOMAIN review_selectors : SoupSelect(rp.blocks, review_selectors[i]) # <<>> })

\* C4: selector resolution tries its strategies in list order and returns
\* exactly the match set of the first strategy that yields an element; later
\* strategies are not evaluated and match sets are never merged.  Both for
\* product links and for review blocks.
C4_FirstStrategyWins ==
    /\ (Discovered /\ variant = "scrapper")
         => LET k == FirstLinkStrategy(page)
            IN  /\ resolved.done
                /\ resolved.won = k
                /\ IF k = 0 THEN resolved.elems = <<>>
                   ELSE /\ resolved.elems = FindElements(page.anchors, Strategies[k])
                        /\ resolved.tried = k
    /\ (page.kind = "review" /\ ~page.fails /\ variant = "scrapper")
         => LET k == FirstBlockStrategy(page)
            IN  /\ resolved.done
                /\ resolved.won = k
                /\ IF k = 0 THEN resolved.elems = <<>>
                   ELSE /\ resolved.elems = SoupSelect(page.blocks, review_selectors[k])
                        /\ resolved.tried = k

\* S1 matches nothing, S2 matches 3 elements, a later strategy matches others:
\* exactly the 3 elements of S2 are returned.
C4_Witness ==
    /\ Discovered
    /\ variant = "scrapper"
    /\ FindElements(page.anchors, selectors[1]) = <<>>
    /\ Len(FindElements(page.anchors, selectors[2])) = 3
    /\ Len(FindElements(page.anchors, selectors[4])) > 3
    /\ resolved.won = 2
    /\ Len(resolved.elems) = 3

\* --------------------------------------------------------------- session
\* C5: on every exit path of a run the application started (a dataset
\* returned, a per-step error, an exception out of get_review_data) the browser
\* session that was opened is released: no run ends without driver.quit.
C5_SessionReleasedOnEveryExit ==
    (pc = "done" /\ driver # "none") => quit_calls > 0

\* ---------------------------------------------------- per-product errors
\* The step is one iteration's extract_reviews or extract_products call.
ProductStep == (pc = "loop" /\ pc' # "returned") \/ pc = "extract"

\* The page the step loaded failed to load or to be read.
PageFailed(pg) == pg.kind \in {"product", "review"} /\ pg.fails

\* C6: in get_review_data of the scrapper variant an exception raised while
\* locating or extracting one product is caught, adds no records, and the loop
\* goes on to the next candidate; the records aggregated so far are kept and
\* get_review_data does not raise.
C6_ProductErrorIsSkipped ==
    [][ variant = "scrapper"
          => /\ (ProductStep /\ PageFailed(page'))
                  => /\ collected' = collected
                     /\ idx' = idx + 1
                     /\ pc' = "loop"
                     /\ outcome' = "none"
             /\ raised_in' \notin {"extract_reviews", "extract_products"}
             /\ (pc = "loop" /\ pc' = "returned")
                  => /\ outcome' = "dataset"
                     /\ result' = Df(Concat(collected, 1)) ]_vars

\* The last product failed, and the records of an earlier one were returned.
C6_Witness ==
    /\ variant = "scrapper"
    /\ pc = "returned"
    /\ PageFailed(page)
    /\ Len(product_urls) = 2
    /\ extract_calls = {1}
    /\ result.rows # <<>>

\* C7: get_review_data of the scraper variant likewise continues past a
\* per-product failure: an exception of extract_reviews or extract_products
\* for one product does not abort the run.
C7_ScraperVariantContinues ==
    variant = "scraper" => raised_in \notin {"extract_reviews", "extract_products"}

\* C8: when navigation to the search URL fails, discovery returns an empty
\* list and get_review_data completes with an empty dataset; nothing is raised
\* to the caller.
C8_SearchFailureGivesEmptyDataset ==
    page = ErrorPage => outcome = "dataset" /\ result = Df(<<>>) /\ product_urls = <<>>

\* C9: when the browser session cannot be opened, the construction of
\* ScrapeReviews raises CustomException to the caller; the run never enters
\* discovery, loads no page and returns no dataset.
C9_OpenFailureIsFatal ==
    /\ (pc # "start" /\ Strip(product_name) # <<>> /\ ~running_on_streamlit /\ driver = "none")
         => raised_in = "__init__" /\ outcome = "CustomException"
    /\ raised_in = "__init__"
         => /\ pc \in {"except", "display", "done"}
            /\ driver = "none"
            /\ page = BlankPage
            /\ product_urls = <<>>
            /\ result = NoDf
            /\ collected = <<>>

\* The handler ended after the constructor failed.
C9_Witness == raised_in = "__init__" /\ pc = "done" /\ outcome = "CustomException"

\* ---------------------------------------------------------------- locator
\* A product page with no review-block markers, no reviews anchor and no
\* control to click.
NoReviewsAnywhere(pg) ==
    /\ pg.kind = "product"
    /\ ~pg.fails
    /\ ~pg.markers
    /\ ~pg.anchor
    /\ \A i \in DOMAIN pg.controls : pg.controls[i] = "absent"

\* C10: for a product page with no review-block markers and no reviews anchor
\* extract_reviews returns None, the orchestrator does not call the extractor
\* for that product, goes on to the next candidate and raises nothing.
C10_NotFoundIsSkipped ==
    [][ variant = "scrapper"
          => /\ (pc = "loop" /\ pc' # "returned" /\ NoReviewsAnywhere(page'))
                  => /\ review_page' = None
                     /\ pc' = "sleep"
                     /\ idx' = idx
                     /\ idx \notin extract_calls'
                     /\ outcome' = "none"
             /\ (pc = "sleep" /\ NoReviewsAnywhere(page))
                  => /\ pc' = "loop"
                     /\ idx' = idx + 1
                     /\ idx \notin extract_calls'
                     /\ outcome' = "none" ]_vars

\* The first of two products had no reviews anywhere; the run went on to the
\* second without calling the extractor for the first.
C10_Witness ==
    /\ variant = "scrapper"
    /\ idx = 2
    /\ pc = "loop"
    /\ Len(product_urls) = 2
    /\ NoReviewsAnywhere(page)
    /\ review_page = None
    /\ extract_calls = {}
    /\ outcome = "none"

\* ----------------------------------------------------------- empty runs
\* get_review_data is over: it returned or raised, and the handler went on.
RunOver == pc \in {"returned", "except", "display", "done"}

\* Discovery returned, without a candidate.
ZeroCandidates ==
    page.kind = "search" /\ product_urls = <<>> /\ raised_in # "scrape_product_urls"

\* extract_reviews returned nothing for every discovered product.
AllNotFound == product_urls # <<>> /\ not_found = DOMAIN product_urls

\* C11: when extract_reviews returns nothing for every discovered product, or
\* discovery returns no candidate at all, get_review_data returns an empty
\* dataset and raises nothing: the run ends normally.
C11_EmptyRunIsNotAFailure ==
    (RunOver /\ (AllNotFound \/ ZeroCandidates))
        => /\ outcome = "dataset"
           /\ result = Df(<<>>)
           /\ raised_in = ""
           /\ pc # "except"

\* Two products were discovered, neither had reviews, and the handler ended
\* with the empty dataset.
C11_Witness ==
    /\ pc = "done"
    /\ Len(product_urls) = 2
    /\ not_found = {1, 2}
    /\ extract_calls = {}
    /\ outcome = "dataset"
    /\ df = Df(<<>>)

\* ----------------------------------------------------------------- scroll
\* C12: a scroll call makes at most max_scrolls scrollTo calls and returns
\* once it has made them, even when every height measured differs from the one
\* before; it returns earlier at the first iteration whose new height equals
\* the last measured one.  Every iteration makes one more scrollTo call or
\* ends the call.
C12_ScrollStopsAtCeilingOrStableHeight ==
    /\ [](/\ scroll.scrolls <= scroll.max_scrolls
          /\ scroll.pc = "loop" => scroll.scrolls < scroll.max_scrolls
          /\ (scroll.pc = "loop" /\ scroll.scrolls > 0)
               => scroll.new_height # scroll.compared
          /\ (scroll.scrolls > 0 /\ ~scroll.raised /\ scroll.new_height = scroll.compared)
               => scroll.pc = "returned"
          /\ (scroll.pc = "returned" /\ ~scroll.raised /\ scroll.scrolls < scroll.max_scrolls)
               => scroll.new_height = scroll.compared)
    /\ [][ scroll.pc = "loop"
             => scroll'.scrolls = scroll.scrolls + 1 \/ scroll'.pc = "returned" ]_vars

\* Every height measured differed from the one before, and the call returned
\* after max_scrolls >= 2 scrollTo calls.
C12_Witness ==
    /\ scroll.pc = "returned"
    /\ ~scroll.raised
    /\ scroll.max_scrolls >= 2
    /\ scroll.scrolls = scroll.max_scrolls
    /\ scroll.new_height # scroll.compared

\* ------------------------------------------------------ locator priority
\* C13: extract_reviews of the scrapper variant decides in strict priority:
\* (1) review-block markers on the page after the click attempt: the current
\* URL, clicked or not; (2) else a click occurred: the current URL; (3) else a
\* reviews anchor with an href in the static markup: that href, made absolute;
\* (4) else nothing is returned.  No lower branch is taken when a higher one
\* applies.
C13_LocatorPriority ==
    (variant = "scrapper" /\ page.kind = "product" /\ ~page.fails /\ pc \in {"extract", "sleep"})
        => LET clicked == \E i \in DOMAIN page.controls : page.controls[i] \in {"click", "js"}
               current == IF page.navigated THEN product_urls[idx] \o <<"/reviews/">>
                          ELSE product_urls[idx]
               with_href == page.anchor /\ page.href \notin {None, <<>>}
           IN  /\ page.markers => review_page = current
               /\ (~page.markers /\ clicked) => review_page = current
               /\ (~page.markers /\ ~clicked /\ with_href)
                    => review_page = IF Head(page.href) = "https:" THEN page.href
                                     ELSE MyntraBase \o page.href
               /\ (~page.markers /\ ~clicked /\ ~with_href)
                    => review_page \in {None, <<>>} /\ idx \in not_found

\* A click navigated to a page without review-block markers whose static
\* markup holds a reviews anchor with an href: the current URL was returned,
\* not the href.
C13_Witness ==
    /\ variant = "scrapper"
    /\ pc = "extract"
    /\ page.kind = "product"
    /\ ~page.markers
    /\ page.navigated
    /\ page.anchor
    /\ page.href = <<"/reviews/", "1">>
    /\ review_page = product_urls[idx] \o <<"/reviews/">>

\* ------------------------------------------------------------------ close
\* C14: close() never raises and may be called any number of times: after a
\* run that returned, after a run that raised, and when driver.quit itself
\* fails, every call returns normally; once the session is quit a further
\* close() leaves it quit.
C14_CloseNeverRaisesAndIsIdempotent ==
    /\ [](raised_in # "close")
    /\ [][ quit_calls' > quit_calls
             => /\ outcome' = outcome
                /\ raised_in' = raised_in
                /\ driver = "quit" => driver' = "quit" ]_vars

\* After a run that raised, close() was called three times and the session is
\* released.
C14_Witness ==
    /\ raised_in = "scrape_product_urls"
    /\ pc = "done"
    /\ quit_calls >= 3
    /\ driver = "quit"

\* ------------------------------------------------------------------ order
\* The position, in discovery order, of the product a record names.
ProductOf(rec) == CHOOSE i \in DOMAIN product_urls : TitleOf(i) = rec.ProductName

\* The records of rows are listed by product, in discovery order.
InProductOrder(rows) ==
    \A a, b \in DOMAIN rows : a < b => ProductOf(rows[a]) <= ProductOf(rows[b])

\* The record was read from the block.
ReadFrom(rec, b) ==
    /\ ~b.bad
    /\ rec.Rating = b.rating /\ rec.Comment = b.comment
    /\ rec.Name = b.name /\ rec.Date = b.date

\* The records are read from blocks of the page at increasing positions.
InBlockOrder(rows, blocks) ==
    \E f \in [DOMAIN rows -> DOMAIN blocks] :
        /\ \A a, b \in DOMAIN rows : a < b => f[a] < f[b]
        /\ \A a \in DOMAIN rows : ReadFrom(rows[a], blocks[f[a]])

\* C15: the dataset lists its records in product discovery order and, within
\* one product, in the order of their blocks on the page: of two records the
\* one of the product discovered earlier comes first, and the records of one
\* product keep the order of their blocks.
C15_DatasetInDiscoveryThenBlockOrder ==
    /\ InProductOrder(Concat(collected, 1))
    /\ InProductOrder(result.rows)
    /\ (pc = "sleep" /\ page.kind = "review")
         => InBlockOrder(SelectSeq(Concat(collected, 1),
                                   LAMBDA rec : rec.ProductName = TitleOf(idx)),
                         page.blocks)
    /\ pc = "returned" => result.rows = Concat(collected, 1)

\* The dataset returned holds a record of the first product and then two
\* different records of the second, whose page is still loaded.
C15_Witness ==
    /\ pc = "returned"
    /\ Len(result.rows) = 3
    /\ result.rows[1].ProductName = TitleOf(1)
    /\ result.rows[2].ProductName = TitleOf(2)
    /\ result.rows[3].ProductName = TitleOf(2)
    /\ result.rows[2].Comment = "ok"
    /\ result.rows[3].Comment = "good"
    /\ page.kind = "review"
    /\ Len(page.blocks) = 2

\* ----------------------------------------------------------- bad blocks
\* The blocks extract_products walks: those of the winning selector in the
\* scrapper variant, those of the combined selector in the scraper variant.
WalkedBlocks ==
    IF variant = "scrapper" THEN resolved.elems
    ELSE SelectSeq(page.blocks, LAMBDA b : b.cls \in ScraperBlockClasses)

\* The block parses and is not dropped for want of content.
GivesRecord(b) ==
    /\ ~b.bad
    /\ variant = "scrapper" => (b.comment \notin {NoText, ""} \/ b.rating \notin {NoText, ""})

\* C16: a parsing exception on one review block skips that block only: every
\* other block of the page, before or after it, still gives its record, in
\* order, and extract_products does not raise.
C16_BadBlockIsSkippedAlone ==
    (pc = "sleep" /\ idx = 1 /\ page.kind = "review")
        => LET rows == Concat(collected, 1)
           IN  /\ raised_in = ""
               /\ outcome = "none"
               /\ Len(rows) = Len(SelectSeq(WalkedBlocks, GivesRecord))
               /\ InBlockOrder(rows, WalkedBlocks)

\* The second of three walked blocks raised; the first and the third gave
\* their records.
C16_Witness ==
    /\ pc = "sleep"
    /\ idx = 1
    /\ page.kind = "review"
    /\ Len(WalkedBlocks) = 3
    /\ GivesRecord(WalkedBlocks[1])
    /\ WalkedBlocks[2].bad
    /\ GivesRecord(WalkedBlocks[3])
    /\ Len(Concat(collected, 1)) = 2

\* ---------------------------------------------------------- link filter
\* The URL is on the target site.
OnTargetSite(url) == Len(url) >= 3 /\ SubSeq(url, 1, 3) = MyntraBase

\* The URL has a product path marker.
ProductShaped(url) ==
    \E i \in DOMAIN url : url[i] \in {"/p/", "/product/", "/products/", "/buy/"}

\* C17: every URL scrape_product_urls returns is on the target site and has a
\* product path marker; a matched link that fails either test is discarded.
C17_CandidatesAreProductPagesOfTheSite ==
    Discovered
        => \A i \in DOMAIN product_urls :
               OnTargetSite(product_urls[i]) /\ ProductShaped(product_urls[i])

\* ------------------------------------------------------------ termination
\* get_review_data is running.
InRun == pc \in {"discover", "loop", "extract", "sleep"}

\* The products the loop has not finished, the current one included.
ProductsLeft == Len(product_urls) - idx + 1

\* A bound on the steps get_review_data still takes.
StepsLeft ==
    CASE pc = "discover" -> 3 * no_of_products + 2
      [] pc = "loop"     -> 3 * ProductsLeft + 1
      [] pc = "extract"  -> 3 * ProductsLeft
      [] pc = "sleep"    -> 3 * ProductsLeft - 1
      [] OTHER           -> 0

\* C20: once the session is open every run of get_review_data terminates,
\* whatever the candidates and whichever steps fail: each of its steps lowers
\* a bound on the steps left, it has no outcome while it runs, and it ends
\* with exactly one outcome, a dataset (possibly empty) or one exception raised
\* to the caller, which never changes afterwards.
C20_RunTerminatesWithOneOutcome ==
    /\ [][ InRun => (StepsLeft' < StepsLeft /\ StepsLeft' >= 0) ]_vars
    /\ [][ outcome # "none" => outcome' = outcome /\ result' = result ]_vars
    /\ [](InRun => driver = "open" /\ outcome = "none" /\ result = NoDf)
    /\ []((driver # "none" /\ RunOver)
            => \/ outcome = "dataset" /\ ~result.none /\ raised_in = ""
               \/ outcome = "CustomException" /\ result.none /\ raised_in # "")

\* Of two products the first had no reviews and the page of the second failed
\* to load; get_review_data returned.
C20_Witness ==
    /\ variant = "scrapper"
    /\ pc = "returned"
    /\ Len(product_urls) = 2
    /\ not_found = {1}
    /\ PageFailed(page)
    /\ outcome = "dataset"

\* ------------------------------------------------------------ aggregation
\* The rows of a list of datasets, one dataset after the other.
RECURSIVE Flat(_)
Flat(dfs) ==
    IF dfs = <<>> THEN <<>>
    ELSE Flat(SubSeq(dfs, 1, Len(dfs) - 1)) \o dfs[Len(dfs)]

\* C21: every record of the dataset comes from the extraction of exactly one
\* discovered product, and aggregation is a pure append: each extraction that
\* succeeds adds exactly the rows it returned, nothing else touches what was
\* collected, and get_review_data returns all of it, so the final count is the
\* sum of the counts of the extractions; nothing is merged, deduplicated or
\* dropped.
C21_AggregationIsPureAppend ==
    /\ [][ /\ pc = "extract"
               => LET r == ExtractProducts(variant, page')
                  IN  Flat(collected') = Flat(collected) \o (IF r.raised THEN <<>> ELSE r.df)
           /\ pc # "extract" => collected' = collected
           /\ (pc = "loop" /\ pc' = "returned") => result'.rows = Flat(collected) ]_vars
    /\ [](\A n \in DOMAIN result.rows :
            \E i \in extract_calls :
                /\ TitleOf(i) = result.rows[n].ProductName
                /\ \A j \in DOMAIN product_urls :
                      TitleOf(j) = result.rows[n].ProductName => j = i)

\* Two products gave two records each, the two of the first alike; all four
\* were returned.
C21_Witness ==
    /\ pc = "returned"
    /\ extract_calls = {1, 2}
    /\ Len(collected) = 2
    /\ Len(collected[1]) = 2
    /\ Len(collected[2]) = 2
    /\ collected[1][1] = collected[1][2]
    /\ Len(result.rows) = 4

\* ------------------------------------------------------- locate, then extract
\* C22: get_review_data calls extract_products for a product only after
\* extract_reviews returned a location for that same product; for a product
\* whose extract_reviews returned nothing or (scrapper variant) raised,
\* extract_products is never called and the loop goes on to the next candidate,
\* or to the end when none remains.
C22_ExtractOnlyAfterLocation ==
    /\ [][ /\ pc' = "extract"
               => /\ pc = "loop"
                  /\ idx' = idx
                  /\ page'.kind = "product" /\ ~page'.fails
                  /\ review_page' \notin {None, <<>>}
           /\ extract_calls' # extract_calls
               => /\ pc = "extract"
                  /\ extract_calls' = extract_calls \cup {idx}
                  /\ review_page \notin {None, <<>>}
           /\ (variant = "scrapper" /\ pc = "loop" /\ pc' \notin {"extract", "returned"})
               => /\ pc' \in {"sleep", "loop"}
                  /\ idx \notin extract_calls'
           /\ idx' # idx => (idx' = idx + 1 /\ pc' = "loop") ]_vars
    /\ [](/\ \A i \in extract_calls : i <= idx
          /\ extract_calls \cap not_found = {}
          /\ (pc = "loop" /\ idx > Len(product_urls)) => ENABLED Finish)

\* The first product had no reviews, the second has a location and is about
\* to be extracted.
C22_Witness ==
    /\ variant = "scrapper"
    /\ pc = "extract"
    /\ idx = 2
    /\ not_found = {1}
    /\ extract_calls = {}
    /\ review_page \notin {None, <<>>}

\* ------------------------------------------------------------ click-through
\* The click-through step performed the operation on the i-th strategy.
Did(op, i) == \E k \in DOMAIN click.ops : click.ops[k] = [op |-> op, sel |-> i]

\* C23: in the click-through step a control that is found is clicked natively;
\* when that click fails a script click is tried; when both fail the step goes
\* on to the next strategy.  _try_click_review_anchor returns True exactly when
\* some control was found and one of its two clicks worked, stops at the first
\* such control, and otherwise returns False without raising.
C23_ClickFallsBackToScript ==
    (variant = "scrapper" /\ page.kind = "product" /\ ~page.fails /\ pc \in {"extract", "sleep"})
        => LET c == page.controls
               first == Least({ i \in DOMAIN c : c[i] \in {"click", "js"} })
               last == IF first = 0 THEN Len(c) ELSE first
           IN  /\ click.clicked <=> first # 0
               /\ raised_in = ""
               /\ \A i \in DOMAIN c :
                    /\ Did("find_element", i) <=> i <= last
                    /\ Did("click", i) <=> (i <= last /\ c[i] # "absent")
                    /\ Did("execute_script", i) <=> (i <= last /\ c[i] \in {"js", "dead"})
               /\ \A k, l \in DOMAIN click.ops :
                    k < l => /\ click.ops[k] # click.ops[l]
                             /\ click.ops[k].sel <= click.ops[l].sel

\* Both clicks failed on the controls of the first two strategies, the third
\* found none, and the native click on the fourth worked.
C23_Witness ==
    /\ variant = "scrapper"
    /\ pc = "extract"
    /\ page.kind = "product"
    /\ page.controls = << "dead", "dead", "absent", "click" >>
    /\ click.clicked
    /\ Len(click.ops) = 9

\* --------------------------------------------------------- empty resolution
\* A review page that loads and on which no review-block strategy matches.
NoBlockMatches(pg) ==
    /\ pg.kind = "review"
    /\ ~pg.fails
    /\ \A i \in DOMAIN review_selectors : SoupSelect(pg.blocks, review_selectors[i]) = <<>>

\* C24: when every review-block strategy matches nothing, extract_products of
\* the scrapper variant returns an empty dataset and raises nothing;
\* get_review_data adds no record for the product and goes on to the pause and
\* the next candidate.
C24_EmptyResolutionIsNotAnError ==
    [][ (variant = "scrapper" /\ pc = "extract" /\ NoBlockMatches(page'))
          => /\ pc' = "sleep"
             /\ idx' = idx
             /\ collected' = collected
             /\ outcome' = outcome
             /\ raised_in' = raised_in
             /\ resolved'.won = 0
             /\ resolved'.tried = Len(review_selectors) ]_vars

\* The page held blocks, none of a class a strategy selects; all five
\* strategies were tried and the run stands at the pause with nothing
\* collected.
C24_Witness ==
    /\ variant = "scrapper"
    /\ pc = "sleep"
    /\ NoBlockMatches(page)
    /\ Len(page.blocks) >= 2
    /\ collected = <<>>
    /\ raised_in = ""
    /\ resolved.tried = 5

\* ------------------------------------------------------- one at a time
\* The positions 1..n in order.
Upto(n) == [ k \in 1..n |-> k ]

\* C25: the products are processed one at a time in discovery order: the
\* locator is called for the positions 1, 2, ... in turn, once each, only from
\* the head of the loop (never while an earlier product is being extracted or
\* paused after), extraction is only of the product located last, and when the
\* scrapper variant returns, every candidate has been attempted.
C25_OneAtATimeInOrder ==
    /\ [](/\ located = Upto(Len(located))
          /\ Len(located) <= Len(product_urls)
          /\ pc \in {"extract", "sleep"} => Len(located) = idx
          /\ pc = "loop" => Len(located) = idx - 1
          /\ extract_calls \subseteq DOMAIN located
          /\ (variant = "scrapper" /\ outcome = "dataset") => Len(located) = Len(product_urls))
    /\ [][ located' # located
             => /\ pc = "loop"
                /\ located' = Append(located, idx) ]_vars
    /\ [][ extract_calls' # extract_calls
             => /\ located # <<>>
                /\ located' = located
                /\ extract_calls' = extract_calls \cup {located[Len(located)]} ]_vars

\* Of two candidates the locator raised on the first, which was caught, and
\* the second was located and extracted; get_review_data returned.
C25_Witness ==
    /\ variant = "scrapper"
    /\ pc = "returned"
    /\ Len(product_urls) = 2
    /\ located = << 1, 2 >>
    /\ extract_calls = {2}
    /\ 1 \notin not_found

\* -------------------------------------------------------------- pacing
\* The number of pauses made after the processing of position k.
Pauses(k) == Cardinality({ j \in DOMAIN slept : slept[j] = k })

\* C26: between the processing of two consecutive products there is one
\* pause: every product after which the locator was called again was followed
\* by exactly one _sleep, whether it gave records, had no reviews location, or
\* raised an exception that was caught.
C26_OnePauseBetweenProducts ==
    \A k \in DOMAIN located : k < Len(located) => Pauses(k) = 1

\* ------------------------------------------------------- static anchor
\* extract_reviews comes to the static reviews anchor: the page loaded, shows
\* no review blocks, no click worked, and the markup has the anchor.
FromStaticAnchor(pp) ==
    /\ pp.kind = "product"
    /\ ~pp.fails
    /\ ~pp.markers
    /\ ~TryClick(pp.controls, 1)
    /\ pp.anchor

\* The tokens a URL path may begin with: they begin with "/".
PathStarts == { "/reviews/", "/p/", "//" }

\* An absolute URL of the target site: scheme, "//", the host, then nothing or
\* a path that begins with "/".
WellFormedOnSite(url) ==
    /\ OnTargetSite(url)
    /\ Len(url) > 3 => url[4] \in PathStarts

\* C27: what the scrapper variant's extract_reviews returns from the href of a
\* static reviews anchor is a well-formed absolute URL on the target site,
\* whichever way the href is spelled, and an anchor without usable href gives
\* "not found": extract_products is not called and the run goes to its pause.
C27_AnchorHrefIsAbsoluteOnSite ==
    (variant = "scrapper" /\ located # <<>> /\ pc \in {"extract", "sleep"}
        /\ FromStaticAnchor(page))
        => IF Truthy(page.href)
           THEN pc = "extract" /\ WellFormedOnSite(review_page)
           ELSE pc = "sleep" /\ idx \in not_found

\* ------------------------------------------------------- what is stored
\* C28: the handler stores reviews under the query's name, and sets the
\* "data" session flag, only when get_review_data returned them in this button
\* press: what is stored is the rows it returned, and when scraping failed or
\* was disabled and the saved CSV was loaded instead, nothing is stored and the
\* flag stays unset.
C28_OnlyScrapedReviewsAreStored ==
    (stored # <<>> \/ session_data)
        => /\ outcome = "dataset"
           /\ raised_in = ""
           /\ result.rows # <<>>
           /\ stored = result.rows

\* --------------------------------------------------- store and fetch
\* The two names are the same once stripped, with "_" for " ", in lower case.
SameCollection(p, q) == NormalizeCollectionName(p) = NormalizeCollectionName(q)

\* C29: store_reviews and get_reviews address the same collection for the
\* same product name, other spellings of it included: a store of a dataset
\* with rows returns their number and get_reviews then returns the rows it
\* returned before followed by those rows, for this name and every name of the
\* same collection, and what the names of other collections fetch is as
\* before; a store of None or of an empty dataset returns 0 and changes
\* nothing; get_reviews changes nothing and returns an empty dataset for a
\* collection without documents.
C29_StoreThenGetAppends ==
    /\ mongo.op = "store_reviews"
         => IF mongo.reviews.none \/ mongo.reviews.rows = <<>>
            THEN mongo.inserted = 0 /\ mongo.db = mongo.before
            ELSE /\ mongo.inserted = Len(mongo.reviews.rows)
                 /\ \A q \in StoreNames :
                      MongoGetReviews(mongo.db, q).rows =
                          IF SameCollection(q, mongo.name)
                          THEN MongoGetReviews(mongo.before, q).rows \o mongo.reviews.rows
                          ELSE MongoGetReviews(mongo.before, q).rows
    /\ mongo.op = "get_reviews"
         => /\ mongo.db = mongo.before
            /\ ~mongo.fetched.none
            /\ mongo.db[NormalizeCollectionName(mongo.name)] = <<>> => mongo.fetched = Df(<<>>)
            /\ Len(mongo.fetched.rows) = Len(mongo.db[NormalizeCollectionName(mongo.name)])
    /\ \A c \in Collections :
          \A k, l \in DOMAIN mongo.db[c] : k < l => mongo.db[c][k].id < mongo.db[c][l].id

\* Two rows were stored under " Ts " into the collection ts, which held one
\* document: "ts" then fetches three rows, and "T_S", a name of the collection
\* t_s, fetches nothing.
C29_Witness ==
    /\ mongo.op = "store_reviews"
    /\ mongo.name = << " ", "T", "s", " " >>
    /\ mongo.inserted = 2
    /\ Len(mongo.before[<< "t", "s" >>]) = 1
    /\ Len(MongoGetReviews(mongo.db, << "t", "s" >>).rows) = 3
    /\ MongoGetReviews(mongo.db, << "T", "_", "S" >>) = Df(<<>>)

====
